---- MODULE Spec2Model ----
(***************************************************************************)
(* Model of image_labeler.py: the two input cell factories and the        *)
(* ImageLabeler state machine (labels, seen-set, position) driven by the  *)
(* widget callbacks.  Indices are 0-based as in the source.               *)
(***************************************************************************)
EXTENDS Integers, Sequences, FiniteSets, TLC

\* ---------------------------------------------------------------- bounds
MaxN == 4            \* largest image list labelled with the class selector
MaxValN == 2         \* largest image list labelled with the validation cell, single mode
MaxValMultiN == 1    \* largest image list labelled with the validation cell, multi mode

\* ------------------------------------------------------- program constants
ValMin == 0          \* BoundedIntText(min=0)
ValMax == 100        \* BoundedIntText(max=100)

\* ---------------------------------------------------------- python values
None == [tag |-> "None"]
Str(s) == [tag |-> "str", s |-> s]
PyInt(v) == [tag |-> "int", v |-> v]
ValResult(tp, fp, fn) == [tag |-> "ValResult", tp |-> tp, fp |-> fp, fn |-> fn]
NoCall == [tag |-> "NoCall"]      \* marks an event that invoked no result callback

\* inputs: the class list handed to MultiClassInputCellFactory, the values a
\* user may type into a counter, and the default_labels lists a caller may pass
Classes == <<Str("a"), Str("b"), PyInt(0)>>
ClassSet == {Classes[k] : k \in 1..Len(Classes)}
TypedInts == {ValMin - 1, ValMax + 1}
ClassDefaultPool == <<Str("z"), Str("b"), None>>
ValDefaultPool == <<ValResult(ValMax + 50, ValMin - 3, ValMax), None>>

VARIABLES
    phase,          \* "new" before __init__, "live" after it, "removed" after remove()
    n,              \* len(self._images)
    multi_mode,     \* the multi_mode argument
    factory,        \* self._cell_factory
    default_labels, \* the default_labels argument
    labels,         \* self._labels
    seen,           \* self._seen
    idx,            \* the position of _render_single
    auto_next_box,  \* auto_next_box.value
    pbar_widget,    \* pbar_widget.value
    label_widget,   \* label_widget.value, as the pair <<idx + 1, n>>
    controls,       \* TRUE while the navigation row of self._output is displayed
    img_output,     \* displayed images: image index -> its displayed input cell
    rendered,       \* images whose image and input cell were displayed at least once
    reported,       \* image index -> last label its cell passed to the callback
    run,            \* the labels given so far in an unbroken auto-advance run
    lastEvent       \* the event handled last and what its handler did

vars == <<phase, n, multi_mode, factory, default_labels, labels, seen, idx,
          auto_next_box, pbar_widget, label_widget, controls, img_output,
          rendered, reported, run, lastEvent>>

Images == 0..(n - 1)
NoCells == [i \in {} |-> None]
Event(kind, img, label, renders) ==
    [kind |-> kind, img |-> img, label |-> label, renders |-> renders]

\* -------------------------------------------- MultiClassInputCellFactory
\* the truth value python gives a value in `default if default else ...`
Truthy(v) == ~(v = None \/ v = PyInt(0) \/ v = Str(""))

\* __init__: self._default_class = default if default else classes[0]
DefaultClass(default) == IF Truthy(default) THEN default ELSE Classes[1]

\* new(): the ToggleButtons widget created for the current value
MultiClassNew(f, value) ==
    [kind |-> "ToggleButtons",
     value |-> IF value = None \/ value \notin ClassSet
               THEN f.default_class ELSE value]

\* variant: the selector reports every click, also one on the selected button
OnChangeFiresAlways(cell, c) == TRUE

\* the widget fires on_change only when the selected value changes
OnChangeFires(cell, c) == c # cell.value

\* ------------------------------------ DetectorValidationInputCellFactory
\* variant: a plain IntText, which keeps whatever it is given
UnboundedInt(v) == v

\* BoundedIntText caps and floors every value it is given
BoundedInt(v) == IF v > ValMax THEN ValMax ELSE IF v < ValMin THEN ValMin ELSE v

\* new(): the HBox of three bounded counters and the Submit button
DetectorValidationNew(value) ==
    LET t == IF value = None THEN ValResult(0, 0, 0) ELSE value
    IN  [kind |-> "HBox", tp |-> BoundedInt(t.tp), fp |-> BoundedInt(t.fp),
         fn |-> BoundedInt(t.fn)]

\* on_submit: the ValResult read off the three counters
OnSubmit(cell) == ValResult(cell.tp, cell.fp, cell.fn)

\* variant: every cell is created as if no value were stored
FactoryNewWithoutValue(f, value) ==
    IF f.kind = "MultiClass" THEN MultiClassNew(f, None)
    ELSE DetectorValidationNew(None)

\* self._cell_factory.new(cell_callback, value=...)
FactoryNew(f, value) ==
    IF f.kind = "MultiClass" THEN MultiClassNew(f, value)
    ELSE DetectorValidationNew(value)

\* ------------------------------------------------------------ ImageLabeler
\* variant: the default_labels argument is ignored
InitialLabelsIgnored(dl, num) == [i \in 0..(num - 1) |-> None]

\* __init__: default_labels = [None] * len(images) when omitted
InitialLabels(dl, num) ==
    IF dl.given THEN dl.list ELSE [i \in 0..(num - 1) |-> None]

\* all_seen
all_seen == \A i \in Images : seen[i]

\* variant: the bar is given the 0-based position
PbarValueZeroBased(i) == i

\* set_progess
PbarValue(i) == i + 1
LabelText(i) == <<i + 1, n>>

\* variant: the label is stored one index too far (wrapping at the end)
StoreLabelNextIndex(lbls, i, label) == [lbls EXCEPT ![(i + 1) % n] = label]

\* cell_callback: self._labels[idx] = label
StoreLabel(lbls, i, label) == [lbls EXCEPT ![i] = label]

\* variant: render_img never marks the image
MarkSeenNever(s, i) == s

\* variant: marking an image forgets the images marked before
MarkSeenOnly(s, i) == [j \in DOMAIN s |-> j = i]

\* render_img: self._seen[idx] = True
MarkSeen(s, i) == [s EXCEPT ![i] = TRUE]

\* variant: the checkbox is not consulted
ShouldAdvanceUnchecked(i) == i < n - 1

\* cell_callback of _render_single: idx < n - 1 and auto_next_box.value
ShouldAdvance(i) == i < n - 1 /\ auto_next_box

\* variant: Next stops one image before the last
CanNextShort(i) == i < n - 2

\* next_img / prev_img: the guards and the new position
CanNext(i) == i < n - 1
CanPrev(i) == i > 0

\* what __init__ displays inside self._output: the single layout only
\* (_render_multi displays its per-image outputs outside `with self._output`)
InsideOutput(multi) == ~multi

\* _render_multi: for i in range(len(self._images)): render_img(i)
RECURSIVE SeenAfterMulti(_, _)
SeenAfterMulti(s, k) == IF k = 0 THEN s ELSE MarkSeen(SeenAfterMulti(s, k - 1), k - 1)

\* the history of an unbroken auto-advance run (labels given in order)
Broken == [ok |-> FALSE, given |-> <<>>]
RunAfterLabel(r, label) ==
    IF r.ok /\ Len(r.given) < n - 1
    THEN [ok |-> TRUE, given |-> Append(r.given, label)] ELSE Broken

\* ------------------------------------------------------------------- Init
\* the arguments of the two constructors, before ImageLabeler.__init__ runs
Factories ==
    {[kind |-> "MultiClass", default |-> d, default_class |-> DefaultClass(d)] :
        d \in {None, Classes[2], Classes[3]}}
    \cup {[kind |-> "DetectorValidation", default |-> None, default_class |-> None]}

MaxImages(f, multi) ==
    IF f.kind = "MultiClass" THEN MaxN
    ELSE IF multi THEN MaxValMultiN ELSE MaxValN

DefaultPool(f) == IF f.kind = "MultiClass" THEN ClassDefaultPool ELSE ValDefaultPool

DefaultLabelsArgs(f, num) ==
    {[given |-> FALSE, list |-> <<>>],
     [given |-> TRUE,
      list |-> [i \in 0..(num - 1) |-> DefaultPool(f)[(i % Len(DefaultPool(f))) + 1]]]}

Init ==
    /\ phase = "new"
    /\ multi_mode \in BOOLEAN
    /\ factory \in Factories
    /\ n \in 1..MaxImages(factory, multi_mode)
    /\ default_labels \in DefaultLabelsArgs(factory, n)
    /\ labels = <<>>
    /\ seen = <<>>
    /\ idx = 0
    /\ auto_next_box = TRUE
    /\ pbar_widget = 0
    /\ label_widget = <<0, 0>>
    /\ controls = FALSE
    /\ img_output = NoCells
    /\ rendered = {}
    /\ reported = <<>>
    /\ run = Broken
    /\ lastEvent = Event("none", -1, NoCall, <<>>)

\* ------------------------------------------------------------ __init__
Construct ==
    /\ phase = "new"
    /\ phase' = "live"
    /\ labels' = InitialLabels(default_labels, n)
    /\ reported' = [i \in Images |-> NoCall]
    /\ auto_next_box' = TRUE
    /\ idx' = 0
    /\ IF multi_mode
       THEN /\ img_output' = [i \in Images |-> FactoryNew(factory, labels'[i])]
            /\ seen' = SeenAfterMulti([i \in Images |-> FALSE], n)
            /\ rendered' = Images
            /\ UNCHANGED <<pbar_widget, label_widget>>
            /\ lastEvent' = Event("construct", -1, NoCall, [k \in 1..n |-> k - 1])
       ELSE /\ img_output' = (0 :> FactoryNew(factory, labels'[0]))
            /\ seen' = MarkSeen([i \in Images |-> FALSE], 0)
            /\ rendered' = {0}
            /\ pbar_widget' = PbarValue(0)
            /\ label_widget' = LabelText(0)
            /\ lastEvent' = Event("construct", -1, NoCall, <<0>>)
    /\ controls' = InsideOutput(multi_mode)
    /\ run' = [ok |-> ~multi_mode, given |-> <<>>]
    /\ UNCHANGED <<n, multi_mode, factory, default_labels>>

\* ------------------------------------------------------ _render_single
\* render_img(i): clear img_output, display the new cell and the image, mark seen
RenderImg(i, lbls) ==
    /\ img_output' = (i :> FactoryNew(factory, lbls[i]))
    /\ seen' = MarkSeen(seen, i)
    /\ rendered' = rendered \cup {i}

SetProgess(i) ==
    /\ pbar_widget' = PbarValue(i)
    /\ label_widget' = LabelText(i)

\* variant: Next moves two images ahead when it can
next_img_skip(lbls, cells) ==
    IF CanNext(idx)
    THEN LET j == IF idx + 2 <= n - 1 THEN idx + 2 ELSE idx + 1
         IN  /\ idx' = j
             /\ RenderImg(j, lbls)
             /\ SetProgess(j)
    ELSE /\ idx' = idx
         /\ img_output' = cells
         /\ UNCHANGED <<seen, rendered>>
         /\ SetProgess(idx)

\* variant: Next at the last image renders that image again
next_img_rerender(lbls, cells) ==
    IF CanNext(idx)
    THEN /\ idx' = idx + 1
         /\ RenderImg(idx + 1, lbls)
         /\ SetProgess(idx + 1)
    ELSE /\ idx' = idx
         /\ RenderImg(idx, lbls)
         /\ SetProgess(idx)

\* next_img, run with the labels and the displayed cells of the moment
next_img(lbls, cells) ==
    IF CanNext(idx)
    THEN /\ idx' = idx + 1
         /\ RenderImg(idx + 1, lbls)
         /\ SetProgess(idx + 1)
    ELSE /\ idx' = idx
         /\ img_output' = cells
         /\ UNCHANGED <<seen, rendered>>
         /\ SetProgess(idx)

prev_img(lbls, cells) ==
    IF CanPrev(idx)
    THEN /\ idx' = idx - 1
         /\ RenderImg(idx - 1, lbls)
         /\ SetProgess(idx - 1)
    ELSE /\ idx' = idx
         /\ img_output' = cells
         /\ UNCHANGED <<seen, rendered>>
         /\ SetProgess(idx)

\* variant: Next forgets the label of the image it leaves displayed
NextImgResetting ==
    /\ controls
    /\ next_img(labels, img_output)
    /\ labels' = [labels EXCEPT ![idx'] = None]
    /\ lastEvent' = Event("next", -1, NoCall, IF CanNext(idx) THEN <<idx + 1>> ELSE <<>>)
    /\ run' = Broken
    /\ UNCHANGED <<phase, n, multi_mode, factory, default_labels,
                   auto_next_box, controls, reported>>

\* a click on the Next button
NextImg ==
    /\ controls
    /\ next_img(labels, img_output)
    /\ lastEvent' = Event("next", -1, NoCall, IF CanNext(idx) THEN <<idx + 1>> ELSE <<>>)
    /\ run' = Broken
    /\ UNCHANGED <<phase, n, multi_mode, factory, default_labels, labels,
                   auto_next_box, controls, reported>>

\* a click on the Previous button
PrevImg ==
    /\ controls
    /\ prev_img(labels, img_output)
    /\ lastEvent' = Event("prev", -1, NoCall, IF CanPrev(idx) THEN <<idx - 1>> ELSE <<>>)
    /\ run' = Broken
    /\ UNCHANGED <<phase, n, multi_mode, factory, default_labels, labels,
                   auto_next_box, controls, reported>>

\* a click on the 'auto advance' checkbox
ToggleAuto ==
    /\ controls
    /\ auto_next_box' = ~auto_next_box
    /\ lastEvent' = Event("auto", -1, NoCall, <<>>)
    /\ run' = Broken
    /\ UNCHANGED <<phase, n, multi_mode, factory, default_labels, labels, seen,
                   idx, pbar_widget, label_widget, controls, img_output,
                   rendered, reported>>

\* ------------------------------------------------------- cell callbacks
\* cell_callback of _render_single.render_img(i)
SingleCallback(i, label, cells) ==
    LET lbls == StoreLabel(labels, i, label)
    IN  /\ labels' = lbls
        /\ IF ShouldAdvance(i)
           THEN next_img(lbls, cells)
           ELSE /\ img_output' = cells
                /\ UNCHANGED <<idx, seen, rendered, pbar_widget, label_widget>>
        /\ run' = RunAfterLabel(run, label)

\* variant: the multi layout reuses the callback of the single layout
MultiCallbackAdvancing(i, label, cells) == SingleCallback(i, label, cells)

\* cell_callback of _render_multi.render_img(i)
MultiCallback(i, label, cells) ==
    /\ labels' = StoreLabel(labels, i, label)
    /\ img_output' = cells
    /\ UNCHANGED <<idx, seen, rendered, pbar_widget, label_widget, run>>

\* result_callback(label) invoked by the displayed cell of image i
ResultCallback(kind, i, label, cells) ==
    /\ IF multi_mode THEN MultiCallback(i, label, cells)
                     ELSE SingleCallback(i, label, cells)
    /\ reported' = [reported EXCEPT ![i] = label]
    /\ lastEvent' = Event(kind, i, label,
                          IF ~multi_mode /\ ShouldAdvance(i) /\ CanNext(idx)
                          THEN <<idx + 1>> ELSE <<>>)

\* an event of a cell that invokes no callback
NoCallback(kind, i, cells) ==
    /\ img_output' = cells
    /\ lastEvent' = Event(kind, i, NoCall, <<>>)
    /\ UNCHANGED <<labels, idx, seen, rendered, pbar_widget, label_widget,
                   reported, run>>

\* a click on button c of the class selector of image i
SelectClass(i, c) ==
    /\ factory.kind = "MultiClass"
    /\ i \in DOMAIN img_output
    /\ LET cell == img_output[i]
           cells == [img_output EXCEPT ![i].value = c]
       IN  IF OnChangeFires(cell, c)
           THEN ResultCallback("select", i, c, cells)
           ELSE NoCallback("select", i, cells)
    /\ UNCHANGED <<phase, n, multi_mode, factory, default_labels,
                   auto_next_box, controls>>

\* the user types v into one counter of the validation cell of image i
EditCounter(i, field, v) ==
    /\ factory.kind = "DetectorValidation"
    /\ i \in DOMAIN img_output
    /\ NoCallback("edit", i,
                  [img_output EXCEPT ![i] =
                      CASE field = "tp" -> [@ EXCEPT !.tp = BoundedInt(v)]
                        [] field = "fp" -> [@ EXCEPT !.fp = BoundedInt(v)]
                        [] OTHER        -> [@ EXCEPT !.fn = BoundedInt(v)]])
    /\ UNCHANGED <<phase, n, multi_mode, factory, default_labels,
                   auto_next_box, controls>>

\* a click on Submit of the validation cell of image i
Submit(i) ==
    /\ factory.kind = "DetectorValidation"
    /\ i \in DOMAIN img_output
    /\ ResultCallback("submit", i, OnSubmit(img_output[i]), img_output)
    /\ UNCHANGED <<phase, n, multi_mode, factory, default_labels,
                   auto_next_box, controls>>

\* ----------------------------------------------------------------- remove
\* remove(): self._output.clear_output()
Remove ==
    /\ phase = "live"
    /\ phase' = "removed"
    /\ controls' = FALSE
    /\ img_output' = IF controls THEN NoCells ELSE img_output
    /\ lastEvent' = Event("remove", -1, NoCall, <<>>)
    /\ run' = Broken
    /\ UNCHANGED <<n, multi_mode, factory, default_labels, labels, seen, idx,
                   auto_next_box, pbar_widget, label_widget, rendered, reported>>

SelectAny == \E i \in Images, c \in ClassSet : SelectClass(i, c)
EditAny == \E i \in Images, field \in {"tp", "fp", "fn"}, v \in TypedInts :
               EditCounter(i, field, v)
SubmitAny == \E i \in Images : Submit(i)

Next ==
    \/ Construct
    \/ NextImg
    \/ PrevImg
    \/ ToggleAuto
    \/ SelectAny
    \/ EditAny
    \/ SubmitAny
    \/ Remove

Spec == Init /\ [][Next]_vars

TypeOK ==
    /\ phase \in {"new", "live", "removed"}
    /\ phase # "new" => /\ DOMAIN labels = Images
                        /\ DOMAIN seen = Images
                        /\ idx \in Images
                        /\ DOMAIN img_output \subseteq Images

\* ------------------------------------------------------------ properties
Constructed == phase # "new"
Single == Constructed /\ ~multi_mode
Multi == Constructed /\ multi_mode
Reports(e) == e.label # NoCall          \* the handler of e invoked the result callback
InitialOf(i) == IF default_labels.given THEN default_labels.list[i] ELSE None

\* C1: in single mode a callback with label L while image i is displayed stores
\* L in labels[i] and leaves every other label alone; the only live cell is
\* that of the displayed image.
C1_LabelStoredAtDisplayed ==
    [][(Single /\ Reports(lastEvent'))
        => /\ DOMAIN img_output = {idx}
           /\ lastEvent'.img = idx
           /\ labels'[idx] = lastEvent'.label
           /\ \A j \in Images \ {idx} : labels'[j] = labels[j]
           /\ Cardinality(DOMAIN img_output') <= 1]_vars

W1_StoredThenAdvanced ==
    /\ Single /\ n >= 3 /\ Reports(lastEvent)
    /\ lastEvent.img = 1 /\ idx = 2
    /\ labels[1] = lastEvent.label /\ labels[2] # lastEvent.label

\* C2: in single mode a label event on displayed image i moves the position to
\* i + 1, rendering image i + 1 once, exactly when the checkbox is checked and
\* i < n - 1; otherwise the label is stored and the position stays.
C2_AdvanceIffCheckedAndNotLast ==
    [][(Single /\ Reports(lastEvent'))
        => /\ labels'[idx] = lastEvent'.label
           /\ IF auto_next_box /\ idx < n - 1
              THEN /\ idx' = idx + 1
                   /\ lastEvent'.renders = <<idx + 1>>
                   /\ DOMAIN img_output' = {idx + 1}
              ELSE /\ idx' = idx
                   /\ lastEvent'.renders = <<>>
                   /\ DOMAIN img_output' = {idx}]_vars

W2_StoredWithoutAdvance ==
    /\ Single /\ Reports(lastEvent) /\ ~auto_next_box
    /\ idx = lastEvent.img /\ idx < n - 1
    /\ labels[idx] = lastEvent.label

\* C3: after construction labels[i] is None when default_labels is omitted and
\* default_labels[i] when it is given, and it keeps that value until the cell
\* of image i invokes its callback.
C3_InitialLabelsKept ==
    Constructed => \A i \in Images : reported[i] = NoCall => labels[i] = InitialOf(i)

W3_DefaultKeptAfterEvents ==
    /\ Single /\ default_labels.given /\ n >= 2
    /\ reported[0] # NoCall /\ reported[1] = NoCall
    /\ labels[1] = InitialOf(1) /\ labels[1] # None
    /\ lastEvent.kind = "prev" /\ lastEvent.renders # <<>>

\* C4: the class selector invokes the callback with the new class exactly when
\* the selected value changes, the validation cell only on Submit (never on a
\* counter edit), and creating a cell (construction, Next, Previous) invokes
\* nothing, so only a select or submit event changes a label.
C4_CallbackOnlyOnChangeOrSubmit ==
    /\ [](lastEvent.kind = "construct"
            => \A i \in Images : reported[i] = NoCall /\ labels[i] = InitialOf(i))
    /\ [][Constructed =>
            LET e == lastEvent'
            IN  /\ e.kind = "select" =>
                     IF Reports(e)
                     THEN /\ e.label \in ClassSet
                          /\ e.label # img_output[e.img].value
                          /\ labels'[e.img] = e.label
                     ELSE /\ img_output'[e.img].value = img_output[e.img].value
                          /\ labels' = labels
                /\ e.kind = "submit" =>
                     /\ e.label = ValResult(img_output[e.img].tp,
                                            img_output[e.img].fp,
                                            img_output[e.img].fn)
                     /\ labels'[e.img] = e.label
                /\ e.kind \in {"edit", "next", "prev", "auto", "remove"} =>
                     ~Reports(e) /\ labels' = labels /\ reported' = reported
                /\ labels' # labels => e.kind \in {"select", "submit"}]_vars

W4_EditedNotStored ==
    /\ Constructed /\ lastEvent.kind = "edit"
    /\ img_output[lastEvent.img].tp = ValMax
    /\ labels[lastEvent.img] = None

\* a ValResult whose three counters lie in 0..100
InBounds(v) == v.tp \in 0..100 /\ v.fp \in 0..100 /\ v.fn \in 0..100

\* C5: every ValResult a validation cell passes to the callback, and so every
\* label stored from one, has tp, fp and fn in 0..100.
C5_ValResultInBounds ==
    (Constructed /\ factory.kind = "DetectorValidation")
    => /\ Reports(lastEvent) => InBounds(lastEvent.label)
       /\ \A i \in Images :
            reported[i] # NoCall => InBounds(reported[i]) /\ InBounds(labels[i])

W5_ClampedDefaultSubmitted ==
    /\ Constructed /\ factory.kind = "DetectorValidation" /\ default_labels.given
    /\ ~InBounds(default_labels.list[0])
    /\ lastEvent.kind = "submit" /\ lastEvent.img = 0
    /\ labels[0] = ValResult(100, 0, 100)

\* C6: right after construction, in multi mode every image is rendered with its
\* own cell and seen, so all_seen holds; in single mode only image 0 is rendered
\* and seen, the position is 0, and all_seen holds only when n = 1.
C6_LayoutsAtConstruction ==
    lastEvent.kind = "construct"
    => IF multi_mode
       THEN /\ rendered = Images
            /\ DOMAIN img_output = Images
            /\ \A i \in Images : seen[i]
            /\ all_seen
       ELSE /\ rendered = {0}
            /\ DOMAIN img_output = {0}
            /\ \A i \in Images : seen[i] <=> i = 0
            /\ idx = 0
            /\ all_seen <=> n = 1

W6_MultiAllSeen ==
    /\ lastEvent.kind = "construct" /\ multi_mode /\ n >= 3
    /\ all_seen /\ Cardinality(DOMAIN img_output) = n

\* C7: in single mode with auto advance checked, after k <= n - 1 label events
\* from image 0 the position is k and labels[0..k-1] hold the labels given in
\* order; after n - 1 of them the position is n - 1, every image has been
\* rendered and all_seen holds.
C7_LabelRunReachesLast ==
    (Single /\ run.ok)
    => LET k == Len(run.given)
       IN  /\ idx = k
           /\ \A j \in 0..(k - 1) : labels[j] = run.given[j + 1]
           /\ rendered = 0..k
           /\ k = n - 1 => (idx = n - 1 /\ rendered = Images /\ all_seen)

W7_RunComplete ==
    /\ Single /\ run.ok /\ n >= 3 /\ Len(run.given) = n - 1
    /\ idx = n - 1 /\ all_seen

\* C8: in single mode 0 <= idx <= n - 1 always; Next at idx = n - 1 and
\* Previous at idx = 0 leave the position unchanged and render nothing.
C8_PositionInRange ==
    /\ [](Single => (0 <= idx /\ idx <= n - 1))
    /\ [][(Single /\ \/ (lastEvent'.kind = "next" /\ idx = n - 1)
                     \/ (lastEvent'.kind = "prev" /\ idx = 0))
           => /\ idx' = idx
              /\ lastEvent'.renders = <<>>
              /\ img_output' = img_output
              /\ rendered' = rendered
              /\ seen' = seen]_vars

W8_NextAtLastKeepsEdit ==
    /\ Single /\ n >= 2 /\ lastEvent.kind = "next" /\ lastEvent.renders = <<>>
    /\ idx = n - 1
    /\ factory.kind = "DetectorValidation"
    /\ img_output[idx].tp = ValMax /\ labels[idx] = None

\* C9: seen[i] holds exactly when image i has been rendered at least once, a
\* seen entry never returns to false, and all_seen holds exactly when every
\* image has been rendered; once all_seen holds it keeps holding.
C9_SeenGrowsWithRendered ==
    /\ [](Constructed => /\ \A i \in Images : seen[i] <=> i \in rendered
                         /\ all_seen <=> rendered = Images)
    /\ [][Constructed => /\ \A i \in Images : seen[i] => seen'[i]
                         /\ all_seen => all_seen']_vars

W9_SeenPrefixAfterGoingBack ==
    /\ Single /\ n >= 3 /\ idx = 0 /\ lastEvent.kind = "prev"
    /\ seen[0] /\ seen[1] /\ ~seen[2] /\ rendered = {0, 1}

\* C10: in multi mode every image keeps its own live cell; labels[i] is the
\* last label the cell of image i reported, or the initial label if it never
\* reported; a callback of image i changes no other label, renders nothing and
\* does not advance.
C10_MultiCellsIndependent ==
    /\ [](Multi => /\ DOMAIN img_output = Images
                   /\ \A i \in Images :
                        labels[i] = IF reported[i] = NoCall THEN InitialOf(i)
                                    ELSE reported[i])
    /\ [][(Multi /\ Reports(lastEvent'))
           => /\ \A j \in Images \ {lastEvent'.img} :
                    labels'[j] = labels[j] /\ img_output'[j] = img_output[j]
              /\ lastEvent'.renders = <<>>
              /\ rendered' = rendered
              /\ seen' = seen
              /\ idx' = idx]_vars

W10_InterleavedReports ==
    /\ Multi /\ n >= 3 /\ Reports(lastEvent) /\ lastEvent.img = 0
    /\ reported[0] = Str("b") /\ reported[2] = Str("a") /\ reported[1] = NoCall
    /\ labels[0] = Str("b") /\ labels[2] = Str("a") /\ labels[1] = InitialOf(1)

\* C11: in single mode a cell is created with the stored label as its value:
\* when image j is rendered again after its cell stored label L, the new cell
\* shows L (class selector: L selected when L is a class; validation cell:
\* counters L.tp, L.fp, L.fn), and navigating does not change labels[j].
C11_CellShowsStoredLabel ==
    [][(Single /\ Len(lastEvent'.renders) = 1)
        => LET j == lastEvent'.renders[1]
               L == labels[j]
               cell == img_output'[j]
           IN  /\ DOMAIN img_output' = {j}
               /\ lastEvent'.kind \in {"next", "prev"} => labels' = labels
               /\ labels'[j] = L
               /\ (reported[j] # NoCall /\ L = reported[j])
                  => IF factory.kind = "MultiClass"
                     THEN L \in ClassSet => cell.value = L
                     ELSE cell.tp = L.tp /\ cell.fp = L.fp /\ cell.fn = L.fn]_vars

W11_BackToStoredCounters ==
    /\ Single /\ factory.kind = "DetectorValidation" /\ ~default_labels.given
    /\ lastEvent.kind = "prev" /\ lastEvent.renders = <<0>> /\ idx = 0
    /\ reported[0] = ValResult(ValMax, 0, ValMax) /\ labels[0] = reported[0]
    /\ img_output[0].tp = ValMax /\ img_output[0].fp = 0 /\ img_output[0].fn = ValMax

\* C12: a class selector created for a value that is None or not a class shows
\* the default class, which is the default passed to the factory, or the first
\* class when none was passed; showing it stores nothing, so labels[j] keeps
\* its initial value until the cell of image j reports a change.
C12_SelectorFallsBackToDefault ==
    (Constructed /\ factory.kind = "MultiClass")
    => \A j \in DOMAIN img_output :
          /\ (/\ \E k \in 1..Len(lastEvent.renders) : lastEvent.renders[k] = j
              /\ (labels[j] = None \/ labels[j] \notin ClassSet))
             => img_output[j].value =
                    IF factory.default # None THEN factory.default ELSE Classes[1]
          /\ reported[j] = NoCall => labels[j] = InitialOf(j)

\* C13: in single mode a Next or Previous click, the clicks at the two ends
\* included, changes only the position, the seen-set and the rendered cell:
\* every labels[i] has the value it had before the click.
C13_NavigationKeepsLabels ==
    [][(Single /\ lastEvent'.kind \in {"next", "prev"})
        => /\ \A i \in Images : labels'[i] = labels[i]
           /\ auto_next_box' = auto_next_box
           /\ n' = n]_vars

W13_NextAtEndKeepsLabels ==
    /\ Single /\ n >= 3 /\ idx = n - 1
    /\ lastEvent.kind = "next" /\ lastEvent.renders = <<>>
    /\ reported[n - 1] # NoCall /\ labels[n - 1] = reported[n - 1]
    /\ reported[0] # NoCall /\ labels[0] = reported[0]

\* C14: in single mode, between events, the progress bar value is idx + 1 and
\* the text label reads 'idx+1 / n'; while the labeler is displayed the image
\* and the input cell shown are those of image idx.
C14_ProgressMatchesPosition ==
    Single => /\ pbar_widget = idx + 1
              /\ label_widget = <<idx + 1, n>>
              /\ phase = "live" => (controls /\ DOMAIN img_output = {idx})

W14_ProgressAfterGoingBack ==
    /\ Single /\ phase = "live" /\ n >= 3 /\ idx = 1
    /\ lastEvent.kind = "prev" /\ seen[2]
    /\ pbar_widget = 2 /\ label_widget = <<2, n>>

\* the images marked seen, and the largest of them
SeenSet == {i \in Images : seen[i]}
SeenMax == IF SeenSet = {} THEN -1
           ELSE CHOOSE m \in SeenSet : \A k \in SeenSet : k <= m

\* C15: in single mode the seen images are always the prefix 0..m, where m is
\* the largest position reached so far, and idx <= m; so all_seen holds exactly
\* when the position has reached n - 1 at some point.
C15_SeenIsPrefix ==
    /\ [](Single => /\ SeenSet = 0..SeenMax
                    /\ idx <= SeenMax
                    /\ all_seen <=> SeenMax = n - 1)
    /\ []((lastEvent.kind = "construct" /\ ~multi_mode) => (idx = 0 /\ SeenMax = 0))
    /\ [][Single => SeenMax' = IF idx' > SeenMax THEN idx' ELSE SeenMax]_vars

W15_PrefixBehindPosition ==
    /\ Single /\ n >= 4 /\ idx = 1 /\ lastEvent.kind = "prev"
    /\ SeenSet = {0, 1, 2} /\ ~all_seen

\* C16: remove() removes the rendered UI in both modes: after remove() no
\* navigation control, input cell or image of the labeler remains displayed,
\* so no further label event occurs, while labels and the seen-set keep the
\* values they had before remove().
C16_RemoveClearsUI ==
    /\ [](phase = "removed" => (~controls /\ DOMAIN img_output = {}))
    /\ [][phase = "removed" => ~Reports(lastEvent')]_vars
    /\ [][lastEvent'.kind = "remove" => (labels' = labels /\ seen' = seen)]_vars

====
